---- MODULE Spec2Model ----
(***************************************************************************)
(* Model of crates/subtale-mimir/src/rule.rs: the fact Query, the          *)
(* conjunctive Rule and the specificity-ordered Ruleset.                   *)
(*                                                                         *)
(* An IndexMap is modelled as the sequence of its entries in insertion     *)
(* order, a Vec as a sequence, a reference into self.rules as an index of  *)
(* that sequence, and an Option as a sequence of length at most one.       *)
(***************************************************************************)
EXTENDS Integers, Sequences, FiniteSets, Bags

\* ------------------------------------------------------------------ bounds

\* Fact values are 0..MaxVal.
MaxVal == 1
\* Rules the caller creates for rulesets over one behaviour.
MaxRules == 3

Keys == {"enemies_killed", "doors_opened"}
Values == 0..MaxVal

VARIABLES
    facts,      \* Query.facts of the caller's query
    written,    \* history: per fact name, the value most recently written
    prior,      \* history: Option of the facts before the last Query write and the entries written
    rule,       \* a Rule the caller is building (Rule::new, Rule::insert)
    ruleResult, \* Option<bool>: what the last Rule::evaluate call returned
    rules,      \* self.rules of the Ruleset
    other,      \* the rules of a second Ruleset, the donor of append
    created,    \* number of rules created for rulesets so far
    op,         \* the last method called
    before,     \* history: the rule vectors handed to the last new/append
    pc,         \* position of the running evaluate_all: idle, scan, done
    i,          \* index of the rule the scan of evaluate_all is at
    matched,    \* the Vec<&Rule> of evaluate_all, as indices into rules
    evaluated,  \* history: indices rule.evaluate was called on in this scan
    all,        \* Option: rules of the last evaluate_all result since a mutation
    pick        \* Option<&Rule> returned by the last evaluate, as a rule

vars == <<facts, written, prior, rule, ruleResult, rules, other, created,
          op, before, pc, i, matched, evaluated, all, pick>>

queryVars == <<facts, written, prior>>
ruleVars == <<rule, ruleResult>>
rulesetVars == <<rules, other, created, before>>
scanVars == <<pc, i, matched, evaluated>>
resultVars == <<all, pick>>

\* ------------------------------------------------------------- evaluators

EqualTo(v) == [kind |-> "EqualTo", arg |-> v]
gt(v) == [kind |-> "gt", arg |-> v]
Evaluators == {EqualTo(v) : v \in Values} \cup {gt(v) : v \in Values}

\* Evaluator::evaluate: a pure predicate over one fact value.
EvaluatorEvaluate(e, v) ==
    IF e.kind = "EqualTo" THEN v = e.arg ELSE v > e.arg

\* --------------------------------------------------------------- IndexMap

Entry(k, v) == [key |-> k, value |-> v]

IndexMapKeys(m) == {m[n].key : n \in 1..Len(m)}

IndexMapContains(m, k) == \E n \in 1..Len(m) : m[n].key = k

\* IndexMap::get on a key the map contains.
IndexMapGet(m, k) == m[CHOOSE n \in 1..Len(m) : m[n].key = k].value

\* Faulty variant of IndexMapInsert: always pushes a new entry.
IndexMapInsertPush(m, k, v) == Append(m, Entry(k, v))

\* IndexMap::insert: replaces the value in place when the key is present,
\* pushes a new entry at the end otherwise.
IndexMapInsert(m, k, v) ==
    IF IndexMapContains(m, k)
    THEN [n \in 1..Len(m) |-> IF m[n].key = k THEN Entry(k, v) ELSE m[n]]
    ELSE Append(m, Entry(k, v))

\* IndexMap::extend: inserts the entries of n one by one, in n's order.
RECURSIVE IndexMapExtend(_, _)
IndexMapExtend(m, n) ==
    IF n = <<>> THEN m
    ELSE IndexMapExtend(IndexMapInsert(m, Head(n).key, Head(n).value), Tail(n))

\* Every IndexMap from K to V: sequences of entries with distinct keys.
IndexMaps(K, V) ==
    {m \in UNION {[1..n -> [key : K, value : V]] : n \in 0..Cardinality(K)} :
        \A a, b \in 1..Len(m) : m[a].key = m[b].key => a = b}

\* ------------------------------------------------------------------ Query

Queries == IndexMaps(Keys, Values)

None == <<>>
Some(x) == <<x>>

\* The value most recently written for each fact name of a query built by
\* inserting the entries of m in order.
WrittenOf(m) ==
    [k \in Keys |-> IF IndexMapContains(m, k) THEN Some(IndexMapGet(m, k)) ELSE None]

\* Query::new
QueryNew ==
    /\ pc = "idle"
    /\ facts' = <<>>
    /\ written' = [k \in Keys |-> None]
    /\ prior' = None
    /\ op' = "Query::new"
    /\ ruleResult' = None
    /\ all' = None
    /\ pick' = None
    /\ UNCHANGED <<rule, rulesetVars, scanVars>>

\* Query::insert
QueryInsert(fact, value) ==
    /\ pc = "idle"
    /\ facts' = IndexMapInsert(facts, fact, value)
    /\ written' = [written EXCEPT ![fact] = Some(value)]
    /\ prior' = Some([facts |-> facts, arg |-> <<Entry(fact, value)>>])
    /\ op' = "Query::insert"
    /\ ruleResult' = None
    /\ all' = None
    /\ pick' = None
    /\ UNCHANGED <<rule, rulesetVars, scanVars>>

\* Query::extend
QueryExtend(query) ==
    /\ pc = "idle"
    /\ facts' = IndexMapExtend(facts, query)
    /\ written' = [k \in Keys |->
                     IF IndexMapContains(query, k)
                     THEN Some(IndexMapGet(query, k)) ELSE written[k]]
    /\ prior' = Some([facts |-> facts, arg |-> query])
    /\ op' = "Query::extend"
    /\ ruleResult' = None
    /\ all' = None
    /\ pick' = None
    /\ UNCHANGED <<rule, rulesetVars, scanVars>>

\* ------------------------------------------------------------------- Rule

Rule(evaluators, outcome) == [evaluators |-> evaluators, outcome |-> outcome]

\* The loop of Rule::evaluate over the evaluators from entry n on.
RECURSIVE EvaluateLoop(_, _, _)
EvaluateLoop(evaluators, queryFacts, n) ==
    IF n > Len(evaluators) THEN TRUE
    ELSE IF IndexMapContains(queryFacts, evaluators[n].key)
         THEN IF ~EvaluatorEvaluate(evaluators[n].value,
                                    IndexMapGet(queryFacts, evaluators[n].key))
              THEN FALSE
              ELSE EvaluateLoop(evaluators, queryFacts, n + 1)
         ELSE FALSE

\* Faulty variant of RuleEvaluate: a fact missing from the query is skipped.
RECURSIVE EvaluateLoopSkipMissing(_, _, _)
EvaluateLoopSkipMissing(evaluators, queryFacts, n) ==
    IF n > Len(evaluators) THEN TRUE
    ELSE IF IndexMapContains(queryFacts, evaluators[n].key)
         THEN IF ~EvaluatorEvaluate(evaluators[n].value,
                                    IndexMapGet(queryFacts, evaluators[n].key))
              THEN FALSE
              ELSE EvaluateLoopSkipMissing(evaluators, queryFacts, n + 1)
         ELSE EvaluateLoopSkipMissing(evaluators, queryFacts, n + 1)

RuleEvaluateSkipMissing(r, queryFacts) ==
    IF Len(r.evaluators) > Len(queryFacts) THEN FALSE
    ELSE EvaluateLoopSkipMissing(r.evaluators, queryFacts, 1)

\* Rule::evaluate
RuleEvaluate(r, queryFacts) ==
    IF Len(r.evaluators) > Len(queryFacts) THEN FALSE
    ELSE EvaluateLoop(r.evaluators, queryFacts, 1)

\* The outcomes the caller gives the rule it builds.
RuleOutcomes == {1}

\* Rule::new
RuleNew(outcome) ==
    /\ pc = "idle"
    /\ rule' = Rule(<<>>, outcome)
    /\ ruleResult' = None
    /\ op' = "Rule::new"
    /\ prior' = None
    /\ UNCHANGED <<facts, written, rulesetVars, scanVars, resultVars>>

\* Rule::insert
RuleInsert(fact, evaluator) ==
    /\ pc = "idle"
    /\ rule' = [rule EXCEPT !.evaluators = IndexMapInsert(@, fact, evaluator)]
    /\ ruleResult' = None
    /\ op' = "Rule::insert"
    /\ prior' = None
    /\ UNCHANGED <<facts, written, rulesetVars, scanVars, resultVars>>

\* A call of Rule::evaluate on the caller's rule and query.
RuleEvaluateCall ==
    /\ pc = "idle"
    /\ ruleResult' = Some(RuleEvaluate(rule, facts))
    /\ op' = "Rule::evaluate"
    /\ prior' = None
    /\ UNCHANGED <<rule, facts, written, rulesetVars, scanVars, resultVars>>

\* ---------------------------------------------------------------- Ruleset

\* The sort key of Ruleset::sort: |x| x.evaluators.len(), the specificity.
Key(r) == Len(r.evaluators)

Reverse(v) == [n \in 1..Len(v) |-> v[Len(v) + 1 - n]]

\* One insertion of a stable ascending sort: x goes behind every element of
\* the sorted vector whose key is not greater than its own.
InsertStable(sorted, x) ==
    LET p == Cardinality({n \in 1..Len(sorted) : Key(sorted[n]) <= Key(x)})
    IN  SubSeq(sorted, 1, p) \o <<x>> \o SubSeq(sorted, p + 1, Len(sorted))

\* slice::sort_by_cached_key: ascending by key, equal keys keep their order.
RECURSIVE SortByCachedKey(_)
SortByCachedKey(v) ==
    IF v = <<>> THEN <<>>
    ELSE InsertStable(SortByCachedKey(SubSeq(v, 1, Len(v) - 1)), v[Len(v)])

\* Faulty variant of Sort: the reverse is left out.
SortAscending(v) == SortByCachedKey(v)

\* Faulty variant of Sort: a stable sort that descends directly and keeps ties.
SortStableDescending(v) == Reverse(SortByCachedKey(Reverse(v)))

\* Ruleset::sort
Sort(v) == Reverse(SortByCachedKey(v))

\* Faulty variant of VecAppend: the donor's last rule is dropped on the way.
VecAppendLossy(self, donor) ==
    [self |-> self \o SubSeq(donor, 1, Len(donor) - 1), other |-> <<>>]

\* Vec::append: moves every element of donor to the end of self.
VecAppend(self, donor) == [self |-> self \o donor, other |-> <<>>]

Position(order, x) == CHOOSE n \in 1..Len(order) : order[n] = x

\* The condition sets the caller gives the rules of a ruleset: each is an
\* IndexMap that Rule::insert builds.
RulesetConditions ==
    { <<>>,
      <<Entry("enemies_killed", EqualTo(1))>>,
      <<Entry("doors_opened", gt(0))>>,
      <<Entry("enemies_killed", EqualTo(1)), Entry("doors_opened", gt(0))>> }

\* The rule vectors the caller can build once n rules exist: every rule gets
\* an outcome of its own, numbered in creation order.
RuleVectors(n) ==
    {[k \in 1..Len(c) |-> Rule(c[k], n + k)] :
        c \in UNION {[1..len -> RulesetConditions] : len \in 0..(MaxRules - n)}}

NoVectors == [self |-> <<>>, other |-> <<>>]

\* Ruleset::new
New(list) == Sort(list)

\* Ruleset::new for the Ruleset whose rules a later append takes; the caller
\* builds it when it holds no donor with rules.
DonorNew(list) ==
    /\ pc = "idle"
    /\ other = <<>>
    /\ other' = New(list)
    /\ created' = created + Len(list)
    /\ before' = [self |-> <<>>, other |-> list]
    /\ op' = "new"
    /\ pick' = None
    /\ UNCHANGED <<rules, all, queryVars, ruleVars, scanVars>>

\* Ruleset::append
RulesetAppend ==
    /\ pc = "idle"
    /\ LET moved == VecAppend(rules, other)
       IN  /\ rules' = Sort(moved.self)
           /\ other' = moved.other
    /\ before' = [self |-> rules, other |-> other]
    /\ op' = "append"
    /\ all' = None
    /\ pick' = None
    /\ UNCHANGED <<created, queryVars, ruleVars, scanVars>>

\* The rules a vector of references into self.rules refers to.
Deref(refs) == [n \in 1..Len(refs) |-> rules[refs[n]]]

\* matched.get(0).map_or(0, |x| x.evaluators.len())
FirstMatchedLen(refs) == IF refs = <<>> THEN 0 ELSE Key(rules[refs[1]])

\* Faulty variant of InTier: the comparison is strict.
InTierStrict(refs, r) == FirstMatchedLen(refs) < Key(r)

\* The condition of the loop body of evaluate_all.
InTier(refs, r) == FirstMatchedLen(refs) <= Key(r)

\* Entry of Ruleset::evaluate_all, called by the user or by Ruleset::evaluate
\* (whose body starts with that call).
EvaluateAllCall ==
    /\ pc = "idle"
    /\ pc' = "scan"
    /\ i' = 1
    /\ matched' = <<>>
    /\ evaluated' = {}
    /\ op' = "evaluate_all"
    /\ before' = NoVectors
    /\ pick' = None
    /\ UNCHANGED <<all, rules, other, created, queryVars, ruleVars>>

\* Faulty variant of ScanEvaluate: a rule that fails evaluation ends the scan.
ScanEvaluateStopOnFail ==
    /\ pc = "scan"
    /\ i <= Len(rules)
    /\ InTier(matched, rules[i])
    /\ evaluated' = evaluated \cup {i}
    /\ IF RuleEvaluate(rules[i], facts)
       THEN matched' = Append(matched, i) /\ i' = i + 1 /\ pc' = pc
       ELSE matched' = matched /\ i' = i /\ pc' = "done"
    /\ UNCHANGED <<op, queryVars, ruleVars, rulesetVars, resultVars>>

\* One iteration of the loop of evaluate_all that evaluates the rule
ScanEvaluate ==
    /\ pc = "scan"
    /\ i <= Len(rules)
    /\ InTier(matched, rules[i])
    /\ evaluated' = evaluated \cup {i}
    /\ matched' = IF RuleEvaluate(rules[i], facts) THEN Append(matched, i) ELSE matched
    /\ i' = i + 1
    /\ UNCHANGED <<pc, op, queryVars, ruleVars, rulesetVars, resultVars>>

\* The iteration that breaks out of the loop
ScanBreak ==
    /\ pc = "scan"
    /\ i <= Len(rules)
    /\ ~InTier(matched, rules[i])
    /\ pc' = "done"
    /\ UNCHANGED <<i, matched, evaluated, op, queryVars, ruleVars, rulesetVars, resultVars>>

\* The iterator of self.rules is exhausted
ScanEnd ==
    /\ pc = "scan"
    /\ i > Len(rules)
    /\ pc' = "done"
    /\ UNCHANGED <<i, matched, evaluated, op, queryVars, ruleVars, rulesetVars, resultVars>>

\* evaluate_all returns matched to the user
EvaluateAllReturn ==
    /\ pc = "done"
    /\ all' = Some(Deref(matched))
    /\ pc' = "idle"
    /\ i' = 1
    /\ matched' = <<>>
    /\ evaluated' = {}
    /\ UNCHANGED <<pick, op, queryVars, ruleVars, rulesetVars>>

\* Faulty variant of SliceChoose: the choice is made among all the stored rules.
SliceChooseAnyRule(v) ==
    IF rules = <<>> THEN {None} ELSE {Some(rules[n]) : n \in 1..Len(rules)}

\* slice::choose: None of an empty slice, else any one element.
SliceChoose(v) ==
    IF v = <<>> THEN {None} ELSE {Some(v[n]) : n \in 1..Len(v)}

\* Faulty variant of EvaluateReturn: evaluate re-sorts the rules it has scanned.
EvaluateReturnSorting ==
    /\ pc = "done"
    /\ all' = Some(Deref(matched))
    /\ pick' \in SliceChoose(Deref(matched))
    /\ op' = "evaluate"
    /\ pc' = "idle"
    /\ i' = 1
    /\ matched' = <<>>
    /\ evaluated' = {}
    /\ rules' = Sort(rules)
    /\ UNCHANGED <<other, created, before, queryVars, ruleVars>>

\* evaluate_all returns matched to Ruleset::evaluate, which returns
\* matched.choose(..).copied()
EvaluateReturn ==
    /\ pc = "done"
    /\ all' = Some(Deref(matched))
    /\ pick' \in SliceChoose(Deref(matched))
    /\ op' = "evaluate"
    /\ pc' = "idle"
    /\ i' = 1
    /\ matched' = <<>>
    /\ evaluated' = {}
    /\ UNCHANGED <<queryVars, ruleVars, rulesetVars>>

\* ------------------------------------------------------- specifications

\* The state right after the caller built a query and Ruleset::new(list)
\* built self, with an empty rule and an empty donor.
Init ==
    /\ facts \in Queries
    /\ written = WrittenOf(facts)
    /\ prior = None
    /\ rule = Rule(<<>>, 1)
    /\ ruleResult = None
    /\ \E list \in RuleVectors(0) :
        /\ rules = New(list)
        /\ created = Len(list)
        /\ before = [self |-> list, other |-> <<>>]
    /\ other = <<>>
    /\ op = "new"
    /\ pc = "idle"
    /\ i = 1
    /\ matched = <<>>
    /\ evaluated = {}
    /\ all = None
    /\ pick = None

\* The Ruleset and a query.
Next ==
    \/ \E list \in RuleVectors(created) : DonorNew(list)
    \/ RulesetAppend
    \/ EvaluateAllCall
    \/ ScanEvaluate
    \/ ScanBreak
    \/ ScanEnd
    \/ EvaluateAllReturn
    \/ EvaluateReturn

Spec == Init /\ [][Next]_vars

\* One Rule with its query.
NextRule ==
    \/ QueryNew
    \/ \E fact \in Keys, value \in Values : QueryInsert(fact, value)
    \/ \E query \in Queries : QueryExtend(query)
    \/ \E outcome \in RuleOutcomes : RuleNew(outcome)
    \/ \E fact \in Keys, evaluator \in Evaluators : RuleInsert(fact, evaluator)
    \/ RuleEvaluateCall

\* A new query, and the Ruleset that Ruleset::new(vec![]) builds.
InitRule == Init /\ facts = <<>> /\ rules = <<>>

SpecRule == InitRule /\ [][NextRule]_vars

\* ----------------------------------------------------------- properties

Range(v) == {v[n] : n \in 1..Len(v)}

\* Every condition of r names a fact of the query that its evaluator accepts.
Satisfies(r, queryFacts) ==
    \A n \in 1..Len(r.evaluators) :
        \E m \in 1..Len(queryFacts) :
            /\ queryFacts[m].key = r.evaluators[n].key
            /\ EvaluatorEvaluate(r.evaluators[n].value, queryFacts[m].value)

\* C1: Rule::evaluate returns true exactly when every fact name of the rule's
\* conditions is in the query and its evaluator accepts the query's value; a
\* rule without conditions matches every query, and a rule with more
\* conditions than the query has facts matches none.
C1_RuleEvaluate ==
    ruleResult # None =>
        /\ ruleResult[1] = Satisfies(rule, facts)
        /\ rule.evaluators = <<>> => ruleResult[1] = TRUE
        /\ Len(rule.evaluators) > Len(facts) => ruleResult[1] = FALSE

\* A rule of two conditions evaluated to true on a query.
C1_Witness ==
    /\ ruleResult = Some(TRUE)
    /\ Len(rule.evaluators) = 2

\* The satisfied rules of the highest specificity that has a satisfied rule.
TopTier(stored, queryFacts) ==
    {r \in Range(stored) :
        /\ Satisfies(r, queryFacts)
        /\ \A s \in Range(stored) : Satisfies(s, queryFacts) => Key(s) <= Key(r)}

\* C2: evaluate_all returns exactly the satisfied rules whose specificity is
\* the highest among the satisfied rules of the Ruleset, each of them once.
C2_TopTier ==
    all # None =>
        /\ Range(all[1]) = TopTier(rules, facts)
        /\ Cardinality(Range(all[1])) = Len(all[1])

\* evaluate_all returned a rule while a satisfied rule of lower specificity
\* is stored.
C2_Witness ==
    /\ all # None
    /\ all[1] # <<>>
    /\ \E r \in Range(rules) : Satisfies(r, facts) /\ Key(r) < Key(all[1][1])

SortedDescending(v) ==
    \A a, b \in 1..Len(v) : a < b => Key(v[a]) >= Key(v[b])

\* C3: when new and append return, the stored rules are sorted by
\* non-increasing specificity.
C3_Sorted == SortedDescending(rules) /\ SortedDescending(other)

\* An append returned whose concatenated vector was not in that order.
C3_Witness ==
    /\ op = "append"
    /\ ~SortedDescending(before.self \o before.other)

SeqToBag(v) == [x \in Range(v) |-> Cardinality({n \in 1..Len(v) : v[n] = x})]

\* C4: after self.append(other), other holds no rules and self holds the
\* multiset union of the rules both held before, each rule unchanged.
C4_Append ==
    op = "append" =>
        /\ other = <<>>
        /\ SeqToBag(rules) = SeqToBag(before.self) (+) SeqToBag(before.other)

\* An append of a donor with rules to a Ruleset with rules has returned.
C4_Witness ==
    /\ op = "append"
    /\ before.self # <<>>
    /\ Len(before.other) >= 2

\* C5: evaluate returns a rule only out of evaluate_all's result, and None
\* exactly when that result is empty, which is when no rule satisfies the
\* query.
C5_Evaluate ==
    (op = "evaluate" /\ pc = "idle") =>
        /\ all # None
        /\ pick = None <=> all[1] = <<>>
        /\ all[1] = <<>> <=> ~(\E r \in Range(rules) : Satisfies(r, facts))
        /\ pick # None => pick[1] \in TopTier(rules, facts)
        /\ pick # None => pick[1] \in Range(all[1])

\* evaluate returned the second of at least two matched rules.
C5_Witness ==
    /\ op = "evaluate"
    /\ pc = "idle"
    /\ all # None
    /\ Len(all[1]) >= 2
    /\ pick = Some(all[1][2])

\* C6: there is one tie order, insertion order or its reverse, that every
\* new and every append keeps. Under either, the stored order of two rules of
\* equal specificity is fixed by the order they were inserted in, so an append
\* leaves two such rules that self already held in the order they had.
C6_OneTieOrder ==
    op = "append" =>
        \A a, b \in 1..Len(before.self) :
            (a < b /\ Key(before.self[a]) = Key(before.self[b]))
                => Position(rules, before.self[a]) < Position(rules, before.self[b])

\* C7: evaluate_all and evaluate leave the stored rules and the query as they
\* are, and an evaluate_all that returns while the Ruleset and the query are
\* as they were at the last return gives the same rules in the same order.
C7_Stateless ==
    [][ /\ (pc # "idle" \/ pc' # "idle") =>
              (rules' = rules /\ other' = other /\ facts' = facts)
        /\ (pc = "done" /\ all # None) => all' = all ]_vars

\* A repeated scan has matched two rules and is about to return.
C7_Witness ==
    /\ pc = "done"
    /\ all # None
    /\ Len(matched) >= 2

\* C8: a query holds each fact name once, with the value most recently
\* written; insert and extend give the union of the names, the written
\* entries winning.
C8_Query ==
    /\ \A a, b \in 1..Len(facts) : facts[a].key = facts[b].key => a = b
    /\ \A k \in Keys :
        /\ written[k] = None <=> ~IndexMapContains(facts, k)
        /\ written[k] # None =>
              \A n \in 1..Len(facts) : facts[n].key = k => facts[n].value = written[k][1]
    /\ prior # None =>
        /\ IndexMapKeys(facts) = IndexMapKeys(prior[1].facts) \cup IndexMapKeys(prior[1].arg)
        /\ Len(facts) = Cardinality(IndexMapKeys(facts))
        /\ \A e \in Range(prior[1].arg) : Entry(e.key, e.value) \in Range(facts)
        /\ \A e \in Range(prior[1].facts) :
              e.key \notin IndexMapKeys(prior[1].arg) => e \in Range(facts)

\* An extend has overwritten the value of a name and added another name.
C8_Witness ==
    /\ op = "Query::extend"
    /\ prior # None
    /\ Len(prior[1].arg) = 2
    /\ Len(prior[1].facts) = 1
    /\ \E e \in Range(prior[1].facts), f \in Range(prior[1].arg) :
          e.key = f.key /\ e.value # f.value

\* C9: the scan of evaluate_all ends only at the first rule whose specificity
\* is below that of the first matched rule or at the end of the rules, a rule
\* that fails never ends it, and after a match no rule of lower specificity
\* is evaluated.
C9_Scan ==
    /\ pc = "done" =>
          \/ i > Len(rules)
          \/ matched # <<>> /\ Key(rules[i]) < Key(rules[matched[1]])
    /\ pc \in {"scan", "done"} =>
          /\ evaluated = 1..(i - 1)
          /\ \A j \in evaluated : \A n \in 1..Len(matched) :
                matched[n] < j => Key(rules[j]) >= Key(rules[matched[n]])

\* A scan that went on past a failing rule of the matched tier and then broke
\* off at a rule of lower specificity.
C9_Witness ==
    /\ pc = "done"
    /\ i <= Len(rules)
    /\ matched # <<>>
    /\ \E j \in evaluated : j > matched[1] /\ j \notin Range(matched)

\* Rules of equal specificity are stored in the reverse of their order in input.
ReversesTies(input, stored) ==
    \A a, b \in 1..Len(input) :
        (a < b /\ Key(input[a]) = Key(input[b]))
            => Position(stored, input[b]) < Position(stored, input[a])

\* C10: new stores rules of equal specificity in the reverse of their order
\* in the given vector, and append in the reverse of their order in self's
\* rules followed by other's, so that two such rules of self swap on each
\* append.
C10_TiesReversed ==
    /\ op = "new" =>
          /\ ReversesTies(before.self, rules)
          /\ ReversesTies(before.other, other)
    /\ op = "append" =>
          /\ ReversesTies(before.self \o before.other, rules)
          /\ ReversesTies(before.self, rules)

\* An append returned that held two rules of equal specificity and took
\* another one of that specificity.
C10_Witness ==
    /\ op = "append"
    /\ \E a, b \in 1..Len(before.self), c \in 1..Len(before.other) :
          /\ a < b
          /\ Key(before.self[a]) = Key(before.self[b])
          /\ Key(before.other[c]) = Key(before.self[a])

====
